---- MODULE Spec2Model ----
(***************************************************************************)
(* TygentScheduler (graph builder + run), the runPromptWithTools driver    *)
(* built on it, and the event log both write to.                           *)
(*                                                                         *)
(* Node identifiers are the strings `llm_${n}` and `tool_${callId}`; they  *)
(* are written here as the tuples <<"llm", n>> and <<"tool", callId>>, a   *)
(* one-to-one rendering of the two templates.  A callId is <<"id", s>>     *)
(* when the model's function call carried an id and <<"gen", name, now>>   *)
(* for the fallback `${fc.name}-${Date.now()}`.                            *)
(*                                                                         *)
(* DAG and Scheduler are imported from the 'tygent' package; their source  *)
(* is not part of src/.  DagAddError, DagAddNode, Ready, Dispatch, Run and *)
(* the Engine* definitions model them from sections 3, 4.1, 4.2 and 7 of   *)
(* the specification.                                                      *)
(***************************************************************************)
EXTENDS Integers, Sequences, FiniteSets, TLC

VARIABLES
    nodes,        \* dag: node name -> [kind, deps, tool]
    declared,     \* node name -> the dependsOn argument its add call was given
    added,        \* the set of names the add calls have returned
    addCount,     \* the number of add calls that returned a name
    nodeCount,    \* TygentScheduler.nodeCount
    buildError,   \* what the last add call threw ("none" when it returned)
    phase,        \* "none", "build", "running", "resolved", "rejected"
    status,       \* node name -> "pending", "running", "done", "failed"
    startTime,    \* node name -> startTime captured by its unit of work
    startCount,   \* node name -> how many times its unit of work was started
    results,      \* the engine's node name -> output mapping, as it grows
    returned,     \* the mapping run() resolved with (empty until it resolves)
    runError,     \* the node whose failure run() rejected with, or NoNode
    events,       \* the ExecutionEvent[] handed to the scheduler / driver
    clock,        \* Date.now()
    pc,           \* runPromptWithTools: position of the driver
    llmCalls,     \* number of client.generateContent invocations
    initialResp,  \* the discovery response
    finalResp,    \* the follow-up response
    toolNodeNames,\* the driver's toolNodeNames array
    planStart,    \* the driver's startTime (of the discovery call)
    followStart,  \* the driver's followStart
    followParts,  \* the parts sent by the follow-up call
    retVal,       \* what the top-level call returned, or NoValue
    aborted,      \* signal.aborted of the AbortSignal the caller passed
    output,       \* runPromptSequentially: output, as the texts appended
    llmCount,     \* runPromptSequentially: llmCount
    functionCalls,\* runPromptSequentially: this round's functionCalls
    fcIndex,      \* position of the for loop over functionCalls (0: outside)
    llmStart,     \* runPromptSequentially: llmStart
    toolStart,    \* runPromptSequentially: toolStart
    chunks,       \* responses the current stream has yielded
    roundOutput,  \* the texts the current round's stream has yielded
    toolRounds,   \* rounds whose stream ended with function calls
    toolRuns,     \* executeToolCall invocations
    thrown,       \* runPromptSequentially has thrown
    currentMessages, \* runPromptSequentially: parts of currentMessages[0]
    toolParts,    \* runPromptSequentially: toolParts of the round
    roundResults, \* runPromptSequentially: the results of the round's tools
    logging,      \* TygentScheduler.events: an events array was supplied
    addLog,       \* the add calls a caller made, in order, to repeat them
    firstKeys,    \* the keys of the mapping the caller's first run returned
    runNo,        \* which of the caller's two schedulers is in use (1, 2)
    toolShapes,   \* the shapes of responseParts the registry's tools return
    orchPc,       \* TygentOrchestrator.execute: position of the call
    orchRequests, \* TygentOrchestrator.execute: the requests it was given
    orchAborted,  \* TygentOrchestrator.execute: its signal is aborted
    orchLog,      \* what console.log has printed
    orchExecuted, \* the requests whose tool TygentOrchestrator has executed
    useTygent,    \* useReactToolScheduler: config.isTygentEnabled()
    toolCallsForDisplay, \* useReactToolScheduler: the tracked tool calls
    batch,        \* useReactToolScheduler: the schedule() calls made
    completions   \* useReactToolScheduler: the calls of onComplete

graphVars == <<nodes, declared, added, addCount, nodeCount, buildError>>

runVars == <<phase, status, startTime, startCount, results, returned, runError>>

driverVars == <<pc, llmCalls, initialResp, finalResp, toolNodeNames,
                planStart, followStart, followParts, retVal>>

seqVars == <<aborted, output, llmCount, functionCalls, fcIndex, llmStart,
             toolStart, chunks, roundOutput, toolRounds, toolRuns, thrown,
             currentMessages, toolParts, roundResults>>

auxVars == <<logging, addLog, firstKeys, runNo, toolShapes>>

orchVars == <<orchPc, orchRequests, orchAborted, orchLog, orchExecuted>>

hookVars == <<useTygent, toolCallsForDisplay, batch, completions>>

vars == <<graphVars, runVars, events, clock, driverVars, seqVars, auxVars,
          orchVars, hookVars>>

----------------------------------------------------------------------------
\* Bounds of the model.

\* add calls made on one scheduler by the generic caller
MaxAdds == 3
\* largest value Date.now() takes
MaxClock == 2
\* function calls in one discovery response
MaxCalls == 2
\* inference rounds of one runPromptSequentially call
MaxRounds == 2
\* responses one stream yields
\* schedule() calls made on one hook
MaxBatches == 2

\* tool calls in one update of the core scheduler
MaxTracked == 2

MaxChunks == 1

----------------------------------------------------------------------------
\* Values.

NoNode == <<"none">>
NoValue == <<"novalue">>
NoResp == [text |-> "unset", calls |-> <<>>]

\* a name no add call ever returns
UnknownId == <<"llm", 99>>

\* the ids a function call of the model can carry; "noid" is an absent fc.id
FcIds == {"a", "b", "noid"}
\* tool names the model can ask for; only those of Registry resolve
FcNames == {"dummy", "missing"}
Registry == {"dummy"}

\* response texts; "null" is getResponseText(resp) returning null
Texts == {"hello", "final", "null"}

\* ToolResult of a tool, as far as the driver reads it: the responseParts
\* field (a sequence of text parts, <<>> when the field is absent).
ToolOutputs == {<<>>, <<"p">>}

EmptyMap == [x \in {} |-> 0]

LLMName(n) == <<"llm", n>>

ToolName(callId) == <<"tool", callId>>

\* callId: fc.id ?? `${fc.name}-${Date.now()}`
CallIdOf(fc, now) ==
    IF fc.id = "noid" THEN <<"gen", fc.name, now>> ELSE <<"id", fc.id>>

Put(f, k, v) == [x \in (DOMAIN f) \cup {k} |-> IF x = k THEN v ELSE f[x]]

RECURSIVE Closure(_, _)
Closure(S, g) ==
    LET T == S \cup UNION {g[x] : x \in S \cap DOMAIN g}
    IN  IF T = S THEN S ELSE Closure(T, g)

\* every node that n transitively depends on, in dependency map g
Ancestors(n, g) == IF n \in DOMAIN g THEN Closure(g[n], g) ELSE {}

DepsOf(ns) == [n \in DOMAIN ns |-> ns[n].deps]

----------------------------------------------------------------------------
\* Graph builder.  A graph value g holds the builder's fields; an add call
\* maps g to the graph after it, g.err telling what the call threw.

Graph ==
    [nodes |-> nodes, declared |-> declared, added |-> added,
     addCount |-> addCount, nodeCount |-> nodeCount, err |-> buildError]

EmptyGraph_KeepCounter ==
    [nodes |-> EmptyMap, declared |-> EmptyMap, added |-> {},
     addCount |-> 0, nodeCount |-> nodeCount, err |-> "none"]

\* new TygentScheduler(...): new DAG('gemini_workflow'), nodeCount = 0
EmptyGraph ==
    [nodes |-> EmptyMap, declared |-> EmptyMap, added |-> {},
     addCount |-> 0, nodeCount |-> 0, err |-> "none"]

SetGraph(g) ==
    /\ nodes' = g.nodes
    /\ declared' = g.declared
    /\ added' = g.added
    /\ addCount' = g.addCount
    /\ nodeCount' = g.nodeCount
    /\ buildError' = g.err

NewLLMNode_NoDeps(name, dependsOn) == [kind |-> "llm", deps |-> {}, tool |-> "none"]

\* new LLMNode(name); node.setDependencies(dependsOn)
NewLLMNode(name, dependsOn) == [kind |-> "llm", deps |-> dependsOn, tool |-> "none"]

NewToolNode_NoDeps(name, dependsOn, tool) == [kind |-> "tool", deps |-> {}, tool |-> tool]

\* new ToolNode(name, fn); node.setDependencies(dependsOn)
NewToolNode(name, dependsOn, tool) == [kind |-> "tool", deps |-> dependsOn, tool |-> tool]

DagAddError_NoCycleCheck(g, name, node) ==
    IF ~(node.deps \subseteq DOMAIN g.nodes) /\ ~(name \in node.deps)
        THEN "UnknownDependency"
    ELSE "none"

\* dag.addNode validation: "none" when the node may be added.
DagAddError(g, name, node) ==
    IF name \in node.deps
       \/ \E d \in node.deps : name \in Ancestors(d, DepsOf(g.nodes))
        THEN "CycleDetected"
    ELSE IF ~(node.deps \subseteq DOMAIN g.nodes)
        THEN "UnknownDependency"
    ELSE "none"

\* dag.addNode(node): the graph is a mapping from identifier to node.
DagAddNode(g, name, node, dependsOn) ==
    LET err == DagAddError(g, name, node)
    IN  IF err = "none"
           THEN [g EXCEPT !.nodes = Put(g.nodes, name, node),
                          !.declared = Put(g.declared, name, dependsOn),
                          !.added = g.added \cup {name},
                          !.addCount = g.addCount + 1,
                          !.err = "none"]
           ELSE [g EXCEPT !.err = err]

\* TygentScheduler.addLLMCall(prompt, dependsOn)
AddLLMCall(g, dependsOn) ==
    LET name == LLMName(g.nodeCount)
        g1 == [g EXCEPT !.nodeCount = g.nodeCount + 1]
    IN  DagAddNode(g1, name, NewLLMNode(name, dependsOn), dependsOn)

AddToolCall_NoLookup(g, request, dependsOn) ==
    LET name == ToolName(request.callId)
    IN  DagAddNode(g, name, NewToolNode(name, dependsOn, request.name),
                   dependsOn)

\* TygentScheduler.addToolCall(request, dependsOn)
AddToolCall(g, request, dependsOn) ==
    LET name == ToolName(request.callId)
    IN  IF request.name \notin Registry
           THEN [g EXCEPT !.err = "ToolNotFound"]
           ELSE DagAddNode(g, name, NewToolNode(name, dependsOn, request.name),
                           dependsOn)

----------------------------------------------------------------------------
\* Units of work and the event log.

LLMEvent(name, start, end) ==
    [type |-> "llm", name |-> name, start |-> start, end |-> end]

ToolEvent_LLMType(name, start, end) ==
    [type |-> "llm", name |-> name, start |-> start, end |-> end]

ToolEvent_SwapTimes(name, start, end) ==
    [type |-> "tool", name |-> name, start |-> end, end |-> start]

ToolEvent(name, start, end) ==
    [type |-> "tool", name |-> name, start |-> start, end |-> end]

RecordEvent_Replace(log, event) == <<event>>

\* TygentScheduler.recordEvent: this.events?.push(event)
RecordEvent(log, event) == IF logging THEN Append(log, event) ELSE log

UnitFinally_OnlyOnSuccess(n, ok) ==
    IF ok
        THEN RecordEvent(events, IF nodes[n].kind = "llm"
                                    THEN LLMEvent(n, startTime[n], clock)
                                    ELSE ToolEvent(n, startTime[n], clock))
        ELSE events

\* the finally block of node n's unit of work: runs on return and on throw
UnitFinally(n, ok) ==
    RecordEvent(events, IF nodes[n].kind = "llm"
                           THEN LLMEvent(n, startTime[n], clock)
                           ELSE ToolEvent(n, startTime[n], clock))

----------------------------------------------------------------------------
\* Scheduler.executeParallel.

RunReturn_OnlyTools(res) == [n \in {m \in DOMAIN res : m[1] = "tool"} |-> res[n]]

\* TygentScheduler.run(): return results as Record<string, unknown>
RunReturn(res) == res

Ready_AnyIdle(ns, st) ==
    {m \in DOMAIN ns :
        /\ st[m] # "running"
        /\ \A d \in ns[m].deps : d \in DOMAIN ns /\ st[d] = "done"}

\* nodes of ns that are pending in st with every dependency done
Ready(ns, st) ==
    {m \in DOMAIN ns :
        /\ st[m] = "pending"
        /\ \A d \in ns[m].deps : d \in DOMAIN ns /\ st[d] = "done"}

\* start the unit of work of every node of S: each takes startTime = Date.now()
Dispatch(S, st, stt, cnt) ==
    /\ status' = [m \in DOMAIN st |-> IF m \in S THEN "running" ELSE st[m]]
    /\ startTime' = [m \in DOMAIN st |-> IF m \in S THEN clock ELSE stt[m]]
    /\ startCount' = [m \in DOMAIN st |-> IF m \in S THEN cnt[m] + 1 ELSE cnt[m]]

\* TygentScheduler.run() on graph ns: executeParallel starts with the
\* in-degree-zero nodes
RunFrom(ns, cnt) ==
    LET st0 == [m \in DOMAIN ns |-> "pending"]
        zero == [m \in DOMAIN ns |-> 0]
    IN  /\ Dispatch(Ready(ns, st0), st0, zero, cnt)
        /\ results' = EmptyMap
        /\ runError' = NoNode
        /\ IF DOMAIN ns = {}
              THEN phase' = "resolved" /\ returned' = RunReturn(EmptyMap)
              ELSE phase' = "running" /\ returned' = EmptyMap

\* run() on this scheduler: a unit of work started by an earlier run() of
\* the same scheduler stays counted
Run(ns) ==
    RunFrom(ns, [m \in DOMAIN ns |->
                    IF m \in DOMAIN startCount THEN startCount[m] ELSE 0])

\* the engine sees node n succeed with out: record it, start what became
\* ready, resolve when every node is done
EngineOnSuccess(n, out) ==
    LET st1 == [status EXCEPT ![n] = "done"]
        res1 == Put(results, n, out)
        allDone == \A m \in DOMAIN nodes : st1[m] = "done"
    IN  /\ Dispatch(Ready(nodes, st1), st1, startTime, startCount)
        /\ results' = res1
        /\ phase' = IF allDone THEN "resolved" ELSE "running"
        /\ returned' = IF allDone THEN RunReturn(res1) ELSE returned
        /\ UNCHANGED runError

EngineOnFailure_CancelSiblings(n) ==
    /\ status' = [m \in DOMAIN status |->
                      IF m = n THEN "failed"
                      ELSE IF status[m] = "running" THEN "cancelled"
                      ELSE status[m]]
    /\ phase' = "rejected"
    /\ runError' = n
    /\ UNCHANGED <<startTime, startCount, results, returned>>

\* the engine sees node n fail: the run rejects with that failure
EngineOnFailure(n) ==
    /\ status' = [status EXCEPT ![n] = "failed"]
    /\ phase' = "rejected"
    /\ runError' = n
    /\ UNCHANGED <<startTime, startCount, results, returned>>

\* node n's unit of work settles (ok: it returned out; ~ok: it threw)
Complete(n, ok, out) ==
    /\ n \in DOMAIN status
    /\ status[n] = "running"
    /\ events' = UnitFinally(n, ok)
    /\ IF phase = "running"
          THEN IF ok THEN EngineOnSuccess(n, out) ELSE EngineOnFailure(n)
          ELSE /\ status' = [status EXCEPT ![n] = IF ok THEN "done" ELSE "failed"]
               /\ UNCHANGED <<phase, startTime, startCount, results, returned,
                              runError>>
    /\ UNCHANGED graphVars

\* some operation that reads Date.now() when it ends is in flight
InFlight ==
    \/ \E n \in DOMAIN status : status[n] = "running"
    \/ pc \in {"discover", "follow", "stream", "tool"}

\* Date.now() moves on.  Only operations in flight read it, so the clock is
\* left alone while there is none.
Tick ==
    /\ InFlight
    /\ clock < MaxClock
    /\ clock' = clock + 1

----------------------------------------------------------------------------
\* A caller that builds any graph with the two add calls, then runs it.

Requests == [callId : {<<"id", "a">>, <<"id", "b">>}, name : Registry]

\* dependsOn arguments the caller passes: names it got from earlier add calls
DepChoices == SUBSET added

CanAdd == phase = "build" /\ addCount < MaxAdds /\ nodeCount < MaxAdds

CallerAddLLM ==
    /\ CanAdd
    /\ \E dependsOn \in DepChoices :
           SetGraph(AddLLMCall(Graph, dependsOn))
    /\ UNCHANGED <<runVars, events, clock, driverVars>>
    /\ UNCHANGED seqVars
    /\ UNCHANGED auxVars
    /\ UNCHANGED <<orchVars, hookVars>>

CallerAddTool ==
    /\ CanAdd
    /\ \E request \in Requests :
           \E dependsOn \in DepChoices :
               SetGraph(AddToolCall(Graph, request, dependsOn))
    /\ UNCHANGED <<runVars, events, clock, driverVars>>
    /\ UNCHANGED seqVars
    /\ UNCHANGED auxVars
    /\ UNCHANGED <<orchVars, hookVars>>

CallerRun ==
    /\ phase = "build"
    /\ Run(nodes)
    /\ UNCHANGED <<graphVars, events, clock, driverVars>>
    /\ UNCHANGED seqVars
    /\ UNCHANGED auxVars
    /\ UNCHANGED <<orchVars, hookVars>>

NodeSucceeds ==
    /\ \E n \in DOMAIN status : Complete(n, TRUE, "output")
    /\ UNCHANGED <<clock, driverVars>>
    /\ UNCHANGED seqVars
    /\ UNCHANGED auxVars
    /\ UNCHANGED <<orchVars, hookVars>>

NodeFails ==
    /\ \E n \in DOMAIN status : Complete(n, FALSE, "none")
    /\ UNCHANGED <<clock, driverVars>>
    /\ UNCHANGED seqVars
    /\ UNCHANGED auxVars
    /\ UNCHANGED <<orchVars, hookVars>>

ClockTick ==
    /\ Tick
    /\ UNCHANGED <<graphVars, runVars, events, driverVars>>
    /\ UNCHANGED seqVars
    /\ UNCHANGED auxVars
    /\ UNCHANGED <<orchVars, hookVars>>

GraphInit ==
    /\ nodes = EmptyMap
    /\ declared = EmptyMap
    /\ added = {}
    /\ addCount = 0
    /\ nodeCount = 0
    /\ buildError = "none"

RunInit ==
    /\ status = EmptyMap
    /\ startTime = EmptyMap
    /\ startCount = EmptyMap
    /\ results = EmptyMap
    /\ returned = EmptyMap
    /\ runError = NoNode

DriverIdle ==
    /\ llmCalls = 0
    /\ initialResp = NoResp
    /\ finalResp = NoResp
    /\ toolNodeNames = <<>>
    /\ planStart = 0
    /\ followStart = 0
    /\ followParts = <<>>
    /\ retVal = NoValue

\* one scheduler, given an events array; no add call made yet; tools
\* whose results carry no responseParts
AuxIdle ==
    /\ logging = TRUE
    /\ addLog = <<>>
    /\ firstKeys = {}
    /\ runNo = 1
    /\ toolShapes = {"absent"}

\* no TygentOrchestrator is in use
OrchIdle ==
    /\ orchPc = "unused"
    /\ orchRequests = <<>>
    /\ orchAborted = FALSE
    /\ orchLog = <<>>
    /\ orchExecuted = {}

\* no useReactToolScheduler hook is mounted
HookIdle ==
    /\ useTygent = FALSE
    /\ toolCallsForDisplay = <<>>
    /\ batch = <<>>
    /\ completions = <<>>

\* runPromptSequentially has not been called; the signal is not aborted
SeqIdle ==
    /\ aborted = FALSE
    /\ output = <<>>
    /\ llmCount = 0
    /\ functionCalls = <<>>
    /\ fcIndex = 0
    /\ llmStart = 0
    /\ toolStart = 0
    /\ chunks = 0
    /\ roundOutput = <<>>
    /\ toolRounds = 0
    /\ toolRuns = 0
    /\ thrown = FALSE
    /\ currentMessages = <<>>
    /\ toolParts = <<>>
    /\ roundResults = <<>>

\* a constructed TygentScheduler with an events array, before any add call
Init ==
    /\ GraphInit
    /\ RunInit
    /\ phase = "build"
    /\ DriverIdle
    /\ pc = "unused"
    /\ events = <<>>
    /\ clock = 0
    /\ SeqIdle
    /\ AuxIdle
    /\ OrchIdle
    /\ HookIdle

Next ==
    \/ CallerAddLLM
    \/ CallerAddTool
    \/ CallerRun
    \/ NodeSucceeds
    \/ NodeFails
    \/ ClockTick

Spec == Init /\ [][Next]_vars

----------------------------------------------------------------------------
\* runPromptWithTools (packages/core/src/tygent/workflowExecutor.ts).

FunctionCalls == [id : FcIds, name : FcNames]

CallSeqs(k) == UNION {[1..j -> FunctionCalls] : j \in 0..k}

\* what the discovery call can resolve with
Responses == [text : Texts, calls : CallSeqs(MaxCalls)]

\* what the follow-up call can resolve with: it may ask for a tool again
FollowResponses ==
    [text : Texts, calls : {<<>>, <<[id |-> "a", name |-> "dummy"]>>}]

\* the name of the discovery event
PlanName == <<"llm_plan">>

\* getResponseText(resp) ?? String(resp)
ResponseText(resp) == IF resp.text = "null" THEN "[object Object]" ELSE resp.text

NoToolsRequested_Never(calls) == FALSE

\* functionCalls.length === 0
NoToolsRequested(calls) == Len(calls) = 0

DriverToolDeps_Chained(names) == {names[i] : i \in 1..Len(names)}

\* scheduler.addToolCall(request): no dependsOn is passed, so it is []
DriverToolDeps(names) == {}

RECURSIVE BuildTools_RunFound(_, _, _, _)
BuildTools_RunFound(g, calls, i, names) ==
    IF i > Len(calls)
        THEN [g |-> [g EXCEPT !.err = "none"], names |-> names, thrown |-> FALSE]
        ELSE LET request == [callId |-> CallIdOf(calls[i], clock),
                             name |-> calls[i].name]
                 g1 == AddToolCall(g, request, {})
             IN  IF g1.err # "none"
                    THEN BuildTools_RunFound(g, calls, i + 1, names)
                    ELSE BuildTools_RunFound(g1, calls, i + 1,
                             Append(names, ToolName(request.callId)))

\* the for loop over functionCalls: one addToolCall per call, from call i on;
\* it stops at the first add call that throws
RECURSIVE BuildTools(_, _, _, _)
BuildTools(g, calls, i, names) ==
    IF i > Len(calls)
        THEN [g |-> g, names |-> names, thrown |-> FALSE]
        ELSE LET request == [callId |-> CallIdOf(calls[i], clock),
                             name |-> calls[i].name]
                 g1 == AddToolCall(g, request, DriverToolDeps(names))
             IN  IF g1.err # "none"
                    THEN [g |-> g1, names |-> names, thrown |-> TRUE]
                    ELSE BuildTools(g1, calls, i + 1,
                                    Append(names, ToolName(request.callId)))

\* the loop over toolNodeNames that collects the response parts, from name i on
RECURSIVE ToolParts(_, _, _)
ToolParts(names, res, i) ==
    IF i > Len(names)
        THEN <<>>
        ELSE (IF names[i] \in DOMAIN res THEN res[names[i]] ELSE <<>>)
                 \o ToolParts(names, res, i + 1)

DriverFinally_Skip(log, name, start) == log

\* the finally blocks of the two direct inference calls: events?.push of an
\* llm event from the call's start to Date.now()
DriverFinally(log, name, start) == Append(log, LLMEvent(name, start, clock))

AfterFollowUp_Loop(resp) == IF Len(resp.calls) = 0 THEN "returned" ELSE "start"

\* return getResponseText(finalResp) ?? String(finalResp): the function
\* returns whatever the follow-up response asks for
AfterFollowUp(resp) == "returned"

ToolPhaseDone_NoAwait == phase \in {"running", "resolved"}

ToolPhaseDone_IgnoreFailure == phase \in {"resolved", "rejected"}

\* const toolResults = await scheduler.run(): the run has resolved
ToolPhaseDone == phase = "resolved"

\* client.generateContent(prompt, {tools}, _signal) is called
DiscoverStart ==
    /\ pc = "start"
    /\ pc' = "discover"
    /\ planStart' = clock
    /\ llmCalls' = llmCalls + 1
    /\ UNCHANGED <<graphVars, runVars, events, clock, initialResp, finalResp,
                   toolNodeNames, followStart, followParts, retVal>>
    /\ UNCHANGED seqVars
    /\ UNCHANGED auxVars
    /\ UNCHANGED <<orchVars, hookVars>>

\* the discovery call throws: the finally block logs llm_plan, the error is
\* rethrown
DiscoverFails ==
    /\ pc = "discover"
    /\ events' = DriverFinally(events, PlanName, planStart)
    /\ pc' = "rejected"
    /\ UNCHANGED <<graphVars, runVars, clock, llmCalls, initialResp, finalResp,
                   toolNodeNames, planStart, followStart, followParts, retVal>>
    /\ UNCHANGED seqVars
    /\ UNCHANGED auxVars
    /\ UNCHANGED <<orchVars, hookVars>>

\* the discovery call returns resp: llm_plan is logged; with no function call
\* its text is returned, otherwise the scheduler is built and run() is called
DiscoverReturns ==
    /\ pc = "discover"
    /\ \E resp \in Responses :
          /\ initialResp' = resp
          /\ events' = DriverFinally(events, PlanName, planStart)
          /\ IF NoToolsRequested(resp.calls)
                THEN /\ retVal' = ResponseText(resp)
                     /\ pc' = "returned"
                     /\ UNCHANGED <<graphVars, runVars, toolNodeNames>>
                ELSE LET b == BuildTools(EmptyGraph, resp.calls, 1, <<>>)
                     IN  /\ SetGraph(b.g)
                         /\ toolNodeNames' = b.names
                         /\ UNCHANGED retVal
                         /\ IF b.thrown
                               THEN /\ pc' = "rejected"
                                    /\ phase' = "build"
                                    /\ UNCHANGED <<status, startTime, startCount,
                                                   results, returned, runError>>
                               ELSE /\ pc' = "tools"
                                    /\ Run(b.g.nodes)
    /\ UNCHANGED <<clock, llmCalls, finalResp, planStart, followStart, followParts>>
    /\ UNCHANGED seqVars
    /\ UNCHANGED auxVars
    /\ UNCHANGED <<orchVars, hookVars>>

\* a tool's execute returns out
ToolSucceeds ==
    /\ \E n \in DOMAIN status : \E out \in ToolOutputs : Complete(n, TRUE, out)
    /\ UNCHANGED <<clock, driverVars>>
    /\ UNCHANGED seqVars
    /\ UNCHANGED auxVars
    /\ UNCHANGED <<orchVars, hookVars>>

\* a tool's execute throws
ToolFails ==
    /\ \E n \in DOMAIN status : Complete(n, FALSE, <<>>)
    /\ UNCHANGED <<clock, driverVars>>
    /\ UNCHANGED seqVars
    /\ UNCHANGED auxVars
    /\ UNCHANGED <<orchVars, hookVars>>

\* run() has resolved: the parts are collected and the follow-up call is made
FollowStart ==
    /\ pc = "tools"
    /\ ToolPhaseDone
    /\ followParts' = ToolParts(toolNodeNames, returned, 1)
    /\ followStart' = clock
    /\ llmCalls' = llmCalls + 1
    /\ pc' = "follow"
    /\ UNCHANGED <<graphVars, runVars, events, clock, initialResp, finalResp,
                   toolNodeNames, planStart, retVal>>
    /\ UNCHANGED seqVars
    /\ UNCHANGED auxVars
    /\ UNCHANGED <<orchVars, hookVars>>

\* run() has rejected: runPromptWithTools rejects with it
RunRejects ==
    /\ pc = "tools"
    /\ phase = "rejected"
    /\ pc' = "rejected"
    /\ UNCHANGED <<graphVars, runVars, events, clock, llmCalls, initialResp,
                   finalResp, toolNodeNames, planStart, followStart, followParts,
                   retVal>>
    /\ UNCHANGED seqVars
    /\ UNCHANGED auxVars
    /\ UNCHANGED <<orchVars, hookVars>>

\* the follow-up call returns resp: llm_0 is logged and its text returned
FollowReturns ==
    /\ pc = "follow"
    /\ \E resp \in FollowResponses :
          /\ finalResp' = resp
          /\ retVal' = ResponseText(resp)
          /\ pc' = AfterFollowUp(resp)
    /\ events' = DriverFinally(events, LLMName(0), followStart)
    /\ UNCHANGED <<graphVars, runVars, clock, llmCalls, initialResp,
                   toolNodeNames, planStart, followStart, followParts>>
    /\ UNCHANGED seqVars
    /\ UNCHANGED auxVars
    /\ UNCHANGED <<orchVars, hookVars>>

\* the follow-up call throws: llm_0 is logged, the error is rethrown
FollowFails ==
    /\ pc = "follow"
    /\ events' = DriverFinally(events, LLMName(0), followStart)
    /\ pc' = "rejected"
    /\ UNCHANGED <<graphVars, runVars, clock, llmCalls, initialResp, finalResp,
                   toolNodeNames, planStart, followStart, followParts, retVal>>
    /\ UNCHANGED seqVars
    /\ UNCHANGED auxVars
    /\ UNCHANGED <<orchVars, hookVars>>

\* runPromptWithTools is called with an events array; no scheduler exists yet
DriverInit ==
    /\ GraphInit
    /\ RunInit
    /\ phase = "none"
    /\ DriverIdle
    /\ pc = "start"
    /\ events = <<>>
    /\ clock = 0
    /\ SeqIdle
    /\ AuxIdle
    /\ OrchIdle
    /\ HookIdle

DriverNext ==
    \/ DiscoverStart
    \/ DiscoverFails
    \/ DiscoverReturns
    \/ ToolSucceeds
    \/ ToolFails
    \/ FollowStart
    \/ RunRejects
    \/ FollowReturns
    \/ FollowFails
    \/ ClockTick

SpecDriver == DriverInit /\ [][DriverNext]_vars

----------------------------------------------------------------------------
\* A caller that passes the add calls any argument: tool names the registry
\* does not hold, dependsOn lists with an identifier that is not in the
\* graph or with the identifier the call is about to create.  A call that
\* throws is caught by the caller, who goes on building or runs the graph.
\* Nothing here reads Date.now(), so the clock stands still.

BuildRequests == [callId : {<<"id", "a">>, <<"id", "b">>}, name : FcNames]

BuildDepChoices(name) == (SUBSET added) \cup {{UnknownId}, {name}}

BuildAddLLM ==
    /\ CanAdd
    /\ \E dependsOn \in BuildDepChoices(LLMName(nodeCount)) :
           SetGraph(AddLLMCall(Graph, dependsOn))
    /\ UNCHANGED <<runVars, events, clock, driverVars>>
    /\ UNCHANGED seqVars
    /\ UNCHANGED auxVars
    /\ UNCHANGED <<orchVars, hookVars>>

BuildAddTool ==
    /\ CanAdd
    /\ \E request \in BuildRequests :
           \E dependsOn \in BuildDepChoices(ToolName(request.callId)) :
               SetGraph(AddToolCall(Graph, request, dependsOn))
    /\ UNCHANGED <<runVars, events, clock, driverVars>>
    /\ UNCHANGED seqVars
    /\ UNCHANGED auxVars
    /\ UNCHANGED <<orchVars, hookVars>>

BuildNext ==
    \/ BuildAddLLM
    \/ BuildAddTool
    \/ CallerRun
    \/ NodeSucceeds
    \/ NodeFails

SpecBuild == Init /\ [][BuildNext]_vars

----------------------------------------------------------------------------
\* runPromptSequentially (packages/core/src/tygent/workflowExecutor.ts).
\* chat.sendMessageStream and executeToolCall are outside src/: a stream
\* yields responses and then ends or throws, a tool call returns a result or
\* throws.

\* the driver locals runPromptSequentially does not have
driverLocals == <<llmCalls, initialResp, finalResp, toolNodeNames, planStart,
                  followStart, followParts>>

\* the functionCalls one streamed response can carry
SeqCallSeqs == {<<>>, <<[id |-> "a", name |-> "dummy"]>>}

\* the responses a stream can yield ("null": getResponseText gives no text);
\* one of them asks for two tools
StreamResponses ==
    [text : {"null", "x"}, calls : SeqCallSeqs]
        \cup {[text |-> "null",
               calls |-> <<[id |-> "a", name |-> "dummy"],
                           [id |-> "noid", name |-> "missing"]>>]}

\* name: `tool_${fc.name}`
SeqToolName(fc) == <<"tool", fc.name>>

NextCount_Same(n) == n

NextCount_Skip(n) == n + 2

\* llmCount++
NextCount(n) == n + 1

SeqToolStart_RoundStart == llmStart

\* const toolStart = Date.now()
SeqToolStart == clock

AfterThrow_Resume(pos) == pos

\* a throw leaves the function: the promise rejects, whatever the position
AfterThrow(pos) == "rejected"

\* throw inside the loop; nothing catches it
Throw ==
    /\ pc' = AfterThrow(pc)
    /\ thrown' = TRUE

\* if (text) output += text
AppendText(out, text) == IF text = "null" THEN out ELSE Append(out, text)

\* [{ role: 'user', parts: [{ text: prompt }] }], as its parts
PromptParts == <<[text |-> "prompt"]>>

\* the shapes result.responseParts can have
ResultShapes == {"absent", "single", "array"}

\* result.responseParts of executeToolCall for fc: absent, one string that
\* is not in an array, or an array of a Part, a null and a string
SeqToolResult(fc, shape) ==
    CASE shape = "absent" ->
             [present |-> FALSE, isArray |-> FALSE, items |-> <<>>]
      [] shape = "single" ->
             [present |-> TRUE, isArray |-> FALSE,
              items |-> <<[kind |-> "string", text |-> fc.name]>>]
      [] shape = "array" ->
             [present |-> TRUE, isArray |-> TRUE,
              items |-> <<[kind |-> "part", text |-> fc.name],
                          [kind |-> "null", text |-> "none"],
                          [kind |-> "string", text |-> "more"]>>]

\* the results the registry's tools can give for fc
SeqToolResults(fc) == {SeqToolResult(fc, shape) : shape \in toolShapes}

\* for (const part of parts): a string is pushed as {text: part}, any other
\* part is pushed when it is truthy; from item i on
RECURSIVE PushParts(_, _, _)
PushParts(acc, items, i) ==
    IF i > Len(items)
        THEN acc
        ELSE PushParts(IF items[i].kind = "null"
                          THEN acc
                          ELSE Append(acc, [text |-> items[i].text]),
                       items, i + 1)

\* if (result.responseParts) { ... toolParts.push ... }
CollectParts(acc, result) ==
    IF result.present THEN PushParts(acc, result.items, 1) ELSE acc

NextMessage_Accumulate(msg, parts) == msg \o parts

\* currentMessages = [{ role: 'user', parts: toolParts }]
NextMessage(msg, parts) == parts

\* the top of the while loop down to the await of sendMessageStream
StartRound ==
    /\ functionCalls' = <<>>
    /\ llmCount' = NextCount(llmCount)
    /\ llmStart' = clock
    /\ chunks' = 0
    /\ roundOutput' = <<>>
    /\ fcIndex' = 0
    /\ pc' = "stream"

\* the body of the for loop for functionCalls[i] down to the await of
\* executeToolCall
StartTool(i) ==
    /\ fcIndex' = i
    /\ toolStart' = SeqToolStart
    /\ toolRuns' = toolRuns + 1
    /\ pc' = "tool"

\* runPromptSequentially is called: the first round is sent
SeqBegin ==
    /\ pc = "start"
    /\ currentMessages' = PromptParts
    /\ StartRound
    /\ UNCHANGED <<graphVars, runVars, events, clock, driverLocals, retVal,
                   aborted, output, toolStart, toolRounds, toolRuns, thrown,
                   toolParts, roundResults>>
    /\ UNCHANGED auxVars
    /\ UNCHANGED <<orchVars, hookVars>>

\* the stream yields resp: the loop body throws when the signal is aborted,
\* else it appends the text and the function calls.  Function calls come
\* only in rounds before round MaxRounds.
SeqChunk ==
    /\ pc = "stream"
    /\ chunks < MaxChunks
    /\ chunks' = chunks + 1
    /\ \E resp \in StreamResponses :
          /\ resp.calls # <<>> => llmCount < MaxRounds
          /\ IF aborted
                THEN /\ Throw
                     /\ UNCHANGED <<output, roundOutput, functionCalls>>
                ELSE /\ output' = AppendText(output, resp.text)
                     /\ roundOutput' = AppendText(roundOutput, resp.text)
                     /\ functionCalls' = functionCalls \o resp.calls
                     /\ UNCHANGED <<pc, thrown>>
    /\ UNCHANGED <<graphVars, runVars, events, clock, driverLocals, retVal,
                   aborted, llmCount, fcIndex, llmStart, toolStart, toolRounds,
                   toolRuns, currentMessages, toolParts, roundResults>>
    /\ UNCHANGED auxVars
    /\ UNCHANGED <<orchVars, hookVars>>

\* sendMessageStream rejects or the stream throws: no event is pushed
SeqStreamError ==
    /\ pc = "stream"
    /\ Throw
    /\ UNCHANGED <<graphVars, runVars, events, clock, driverLocals, retVal,
                   aborted, output, llmCount, functionCalls, fcIndex, llmStart,
                   toolStart, chunks, roundOutput, toolRounds, toolRuns,
                   currentMessages, toolParts, roundResults>>
    /\ UNCHANGED auxVars
    /\ UNCHANGED <<orchVars, hookVars>>

\* the stream ends: the round's event is pushed; with no function call
\* output is returned, otherwise the first tool call is made
SeqStreamEnd ==
    /\ pc = "stream"
    /\ events' = Append(events, LLMEvent(LLMName(llmCount - 1), llmStart, clock))
    /\ IF Len(functionCalls) = 0
          THEN /\ retVal' = output
               /\ pc' = "returned"
               /\ UNCHANGED <<fcIndex, toolStart, toolRuns, toolRounds,
                              toolParts, roundResults>>
          ELSE /\ StartTool(1)
               /\ toolRounds' = toolRounds + 1
               /\ toolParts' = <<>>
               /\ roundResults' = <<>>
               /\ UNCHANGED retVal
    /\ UNCHANGED <<graphVars, runVars, clock, driverLocals, aborted, output,
                   llmCount, functionCalls, llmStart, chunks, roundOutput,
                   thrown, currentMessages>>
    /\ UNCHANGED auxVars
    /\ UNCHANGED <<orchVars, hookVars>>

\* executeToolCall returns: the tool's event is pushed; the next tool call
\* is made or, after the last one, the next round is sent
SeqToolReturns ==
    /\ pc = "tool"
    /\ events' = Append(events, ToolEvent(SeqToolName(functionCalls[fcIndex]),
                                          toolStart, clock))
    /\ \E result \in SeqToolResults(functionCalls[fcIndex]) :
          /\ roundResults' = Append(roundResults, result)
          /\ toolParts' = CollectParts(toolParts, result)
    /\ IF fcIndex < Len(functionCalls)
          THEN /\ StartTool(fcIndex + 1)
               /\ UNCHANGED <<functionCalls, llmCount, llmStart, chunks,
                              roundOutput, currentMessages>>
          ELSE /\ currentMessages' = NextMessage(currentMessages, toolParts')
               /\ StartRound
               /\ UNCHANGED <<toolStart, toolRuns>>
    /\ UNCHANGED <<graphVars, runVars, clock, driverLocals, retVal, aborted,
                   output, toolRounds, thrown>>
    /\ UNCHANGED auxVars
    /\ UNCHANGED <<orchVars, hookVars>>

\* executeToolCall throws: no event is pushed
SeqToolThrows ==
    /\ pc = "tool"
    /\ Throw
    /\ UNCHANGED <<graphVars, runVars, events, clock, driverLocals, retVal,
                   aborted, output, llmCount, functionCalls, fcIndex, llmStart,
                   toolStart, chunks, roundOutput, toolRounds, toolRuns,
                   currentMessages, toolParts, roundResults>>
    /\ UNCHANGED auxVars
    /\ UNCHANGED <<orchVars, hookVars>>

\* the caller aborts the signal while the call is in progress
Abort ==
    /\ pc \notin {"start", "returned", "rejected", "unused"}
    /\ ~aborted
    /\ aborted' = TRUE
    /\ UNCHANGED <<graphVars, runVars, events, clock, driverVars, output,
                   llmCount, functionCalls, fcIndex, llmStart, toolStart,
                   chunks, roundOutput, toolRounds, toolRuns, thrown,
                   currentMessages, toolParts, roundResults>>
    /\ UNCHANGED auxVars
    /\ UNCHANGED <<orchVars, hookVars>>

\* runPromptSequentially is about to be called with an events array
SeqInit ==
    /\ GraphInit
    /\ RunInit
    /\ phase = "none"
    /\ DriverIdle
    /\ SeqIdle
    /\ pc = "start"
    /\ events = <<>>
    /\ clock = 0
    /\ AuxIdle
    /\ OrchIdle
    /\ HookIdle

SeqNext ==
    \/ SeqBegin
    \/ SeqChunk
    \/ SeqStreamError
    \/ SeqStreamEnd
    \/ SeqToolReturns
    \/ SeqToolThrows
    \/ Abort
    \/ ClockTick

SpecSeq == SeqInit /\ [][SeqNext]_vars

\* every operation completes: a stream that can end does end, a tool call
\* that can return does return
SeqFairness ==
    /\ WF_vars(SeqBegin)
    /\ WF_vars(SeqStreamEnd)
    /\ WF_vars(SeqToolReturns)

SpecSeqLive == SeqInit /\ [][SeqNext]_vars /\ SeqFairness

\* runPromptSequentially with tools whose results carry response parts of
\* every shape; the signal is never aborted and no time passes
SeqPartsInit ==
    /\ GraphInit
    /\ RunInit
    /\ phase = "none"
    /\ DriverIdle
    /\ SeqIdle
    /\ pc = "start"
    /\ events = <<>>
    /\ clock = 0
    /\ logging = TRUE
    /\ addLog = <<>>
    /\ firstKeys = {}
    /\ runNo = 1
    /\ toolShapes = ResultShapes
    /\ OrchIdle
    /\ HookIdle

SeqPartsNext ==
    \/ SeqBegin
    \/ SeqChunk
    \/ SeqStreamError
    \/ SeqStreamEnd
    \/ SeqToolReturns
    \/ SeqToolThrows

SpecSeqParts == SeqPartsInit /\ [][SeqPartsNext]_vars

----------------------------------------------------------------------------
\* Cancellation in runPromptWithTools: the caller may abort the signal it
\* passed while the call is in progress.

\* AbortSignal.timeout(300000)
TimeoutMs == 300000

\* the signal node n's unit of work passes to generateContent or to
\* tool.execute is AbortSignal.timeout(300000), made when the unit starts
UnitSignalAborted(n) == clock - startTime[n] >= TimeoutMs

\* the signal the driver passes to its two generateContent calls is _signal
DriverSignalAborted == aborted

AbortNext ==
    \/ DriverNext
    \/ Abort

SpecAbort == DriverInit /\ [][AbortNext]_vars

----------------------------------------------------------------------------
\* Time limits in runPromptWithTools: the caller passes a signal it never
\* aborts (the default, new AbortController().signal) and an operation may
\* stay in flight for 300 seconds.

\* 300 seconds pass while some operation is in flight
LongWait ==
    /\ InFlight
    /\ clock < TimeoutMs
    /\ clock' = clock + TimeoutMs
    /\ UNCHANGED <<graphVars, runVars, events, driverVars, seqVars>>
    /\ UNCHANGED auxVars
    /\ UNCHANGED <<orchVars, hookVars>>

TimeoutNext ==
    \/ DriverNext
    \/ LongWait

SpecTimeout == DriverInit /\ [][TimeoutNext]_vars

----------------------------------------------------------------------------
\* Properties of run() over any graph (specification Spec).

\* positions of the events that carry name n
EventsOf(n) == {i \in 1..Len(events) : events[i].name = n}

HasStarted(n) == n \in DOMAIN status /\ status[n] # "pending"

Settled(n) == n \in DOMAIN status /\ status[n] \in {"done", "failed"}

\* C1: a node B that declares a dependency on A never starts before A has
\* completed successfully: once B has started, A is done and has its event,
\* B's start time is not before the end of A's event, and on the log
\* event(B).start >= event(A).end.
C1_DependencyOrder ==
    \A b \in DOMAIN declared : \A a \in declared[b] :
        /\ HasStarted(b) =>
              /\ a \in DOMAIN status /\ status[a] = "done"
              /\ EventsOf(a) # {}
              /\ \A j \in EventsOf(a) : startTime[b] >= events[j].end
        /\ \A i \in EventsOf(b) : \A j \in EventsOf(a) :
              events[i].start >= events[j].end

\* a dependency edge A -> B both of whose events are logged, A having taken time
C1_Witness ==
    \E b \in DOMAIN declared : \E a \in declared[b] :
        /\ EventsOf(b) # {}
        /\ \E j \in EventsOf(a) : events[j].end > events[j].start

\* C2: when every node's unit of work has succeeded, run() has resolved with
\* a mapping whose key set is exactly the set of names the add calls returned.
C2_ResultKeys ==
    (phase # "build" /\ \A n \in DOMAIN nodes : Settled(n) /\ status[n] = "done")
        => (phase = "resolved" /\ DOMAIN returned = added)

\* a resolved run of a graph with an inference node, a tool node and an edge
C2_Witness ==
    /\ phase = "resolved"
    /\ \E n \in added : n[1] = "llm"
    /\ \E n \in added : n[1] = "tool"
    /\ \E n \in added : declared[n] # {}

\* C3: within one run() no node's unit of work is started more than once,
\* and when the run resolves every node was started exactly once.
C3_StartedOnce ==
    /\ \A n \in DOMAIN startCount : startCount[n] <= 1
    /\ phase = "resolved" => \A n \in DOMAIN nodes : startCount[n] = 1

\* a resolved run in which one node waited for two dependencies
C3_Witness ==
    /\ phase = "resolved"
    /\ \E n \in DOMAIN nodes : Cardinality(nodes[n].deps) >= 2 /\ startCount[n] = 1

\* C7: a node with a failed ancestor never starts, records no event and has
\* no entry in the engine's results nor in what run() returns.
C7_FailedAncestor ==
    \A n \in DOMAIN declared : \A f \in Ancestors(n, declared) :
        (f \in DOMAIN status /\ status[f] = "failed") =>
            /\ ~HasStarted(n)
            /\ startCount[n] = 0
            /\ EventsOf(n) = {}
            /\ n \notin DOMAIN results
            /\ n \notin DOMAIN returned

\* a failed node with a child and a grandchild, nothing left in flight
C7_Witness ==
    /\ phase = "rejected"
    /\ ~InFlight
    /\ \E n \in DOMAIN declared : \E f \in Ancestors(n, declared) \ declared[n] :
           status[f] = "failed"

\* C9: every unit of work that has settled, by returning or by throwing, has
\* appended exactly one event; the log holds nothing else; the event's name
\* is the node's identifier and its type the node's kind.
C9_OneEventPerUnit ==
    /\ \A n \in DOMAIN status :
          Cardinality(EventsOf(n)) = IF Settled(n) THEN 1 ELSE 0
    /\ Len(events) = Cardinality({n \in DOMAIN status : Settled(n)})
    /\ \A i \in 1..Len(events) :
          /\ events[i].name \in DOMAIN nodes
          /\ events[i].type = nodes[events[i].name].kind
          /\ events[i].type = events[i].name[1]

\* a run in which a tool node threw and an inference node returned, both logged
C9_Witness ==
    /\ \E n \in DOMAIN status :
          status[n] = "failed" /\ nodes[n].kind = "tool" /\ EventsOf(n) # {}
    /\ \E n \in DOMAIN status :
          status[n] = "done" /\ nodes[n].kind = "llm" /\ EventsOf(n) # {}

----------------------------------------------------------------------------
\* Properties of runPromptWithTools (specification SpecDriver).

ToolEvents == {i \in 1..Len(events) : events[i].type = "tool"}

PlanEvents == {i \in 1..Len(events) : events[i].name = PlanName}

\* the number of tool.execute invocations so far
ToolExecutions == Cardinality({n \in DOMAIN startCount : startCount[n] >= 1})

C5_EachToolExecuted ==
    (pc = "returned" /\ Len(initialResp.calls) >= 1) =>
        /\ llmCalls = 2
        /\ ToolExecutions = Len(initialResp.calls)
        /\ finalResp.text # "null" => retVal = finalResp.text

\* C6: every tool's execution window lies between the two inference calls:
\* a tool starts after the discovery event's end, and once the follow-up
\* call has been made every tool node is done with its event's end not after
\* the follow-up's start.
C6_ToolsBetweenCalls ==
    /\ \A n \in DOMAIN status : HasStarted(n) =>
          /\ PlanEvents # {}
          /\ \A j \in PlanEvents : events[j].end <= startTime[n]
    /\ \A i \in ToolEvents :
          \E j \in PlanEvents : j < i /\ events[j].end <= events[i].start
    /\ llmCalls = 2 =>
          /\ \A n \in DOMAIN status : status[n] = "done"
          /\ \A i \in ToolEvents : events[i].end <= followStart
    /\ \A i \in 1..Len(events) : events[i].name = LLMName(0) =>
          /\ events[i].start = followStart
          /\ \A j \in ToolEvents : j < i /\ events[j].end <= events[i].start

\* a returned call whose log holds two tool events, one of which took time
C6_Witness ==
    /\ pc = "returned"
    /\ Cardinality(ToolEvents) >= 2
    /\ \E i \in ToolEvents : events[i].start < events[i].end
    /\ \E i \in 1..Len(events) : events[i].name = LLMName(0)

\* the first unit of work that threw, by the order of the log
FirstFailure ==
    LET failedAt == {i \in ToolEvents : status[events[i].name] = "failed"}
    IN  IF failedAt = {} THEN NoNode
        ELSE events[CHOOSE i \in failedAt : \A j \in failedAt : i <= j].name

\* C8: once a node has failed, run() has rejected with the first failure
\* observed and has returned no mapping, whatever had already completed; in
\* runPromptWithTools the follow-up call is never made and nothing is returned.
C8_FailureAborts ==
    (\E n \in DOMAIN status : status[n] = "failed") =>
        /\ phase = "rejected"
        /\ runError = FirstFailure
        /\ returned = EmptyMap
        /\ pc \in {"tools", "rejected"}
        /\ pc = "tools" => ENABLED RunRejects
        /\ llmCalls = 1
        /\ finalResp = NoResp
        /\ retVal = NoValue

\* the driver has rejected after one tool completed and another one failed
C8_Witness ==
    /\ pc = "rejected"
    /\ \E n \in DOMAIN status : status[n] = "failed"
    /\ \E n \in DOMAIN status : status[n] = "done" /\ n \in DOMAIN results

\* C10: nodes with no dependency relationship run concurrently: the driver's
\* tool nodes declare no dependencies, while the run is active every node
\* whose declared dependencies are done is in flight or finished, and of two
\* nodes in flight either can finish first.
C10_IndependentOverlap ==
    phase = "running" =>
        /\ pc = "tools" => \A n \in DOMAIN declared : declared[n] = {}
        /\ \A n \in DOMAIN declared :
              (\A d \in declared[n] : d \in DOMAIN status /\ status[d] = "done")
                  => status[n] \in {"running", "done"}
        /\ \A a \in DOMAIN status : \A b \in DOMAIN status :
              (a # b /\ status[a] = "running" /\ status[b] = "running") =>
                  /\ ENABLED Complete(a, TRUE, <<>>)
                  /\ ENABLED Complete(b, TRUE, <<>>)

\* two tool events whose [start, end) intervals overlap
C10_Witness ==
    \E i \in ToolEvents : \E j \in ToolEvents :
        /\ i # j
        /\ events[i].start < events[j].end
        /\ events[j].start < events[i].end

----------------------------------------------------------------------------
\* Properties of the add calls (specification SpecBuild).

\* what an add call that throws must leave alone
GraphFields == <<nodes, declared, added, addCount>>

\* C11: addToolCall looks the tool up when it is called: for a name the
\* registry does not hold it throws tool-not-found with the graph left as it
\* was, so no node ever carries a tool the registry lacks and none is
\* executed; a tool node executes the tool its add call looked up.
C11_ToolLookupAtBuild ==
    /\ [][buildError' = "ToolNotFound" => UNCHANGED <<GraphFields, nodeCount>>]_vars
    /\ [](\A n \in DOMAIN nodes : nodes[n].kind = "tool" =>
              /\ nodes[n].tool \in Registry
              /\ n \in added)

\* an add call threw tool-not-found on a graph whose tool node then ran
C11_Witness ==
    /\ buildError = "ToolNotFound"
    /\ \E n \in DOMAIN status : nodes[n].kind = "tool" /\ status[n] = "done"

\* C12 as claimed: an add call whose dependsOn names an identifier that is
\* not in the graph throws and leaves the graph and the identifier counter
\* unchanged.
C12_UnknownDepNoChange ==
    [][buildError' = "UnknownDependency" =>
          UNCHANGED <<GraphFields, nodeCount>>]_vars

\* every dependency is a node of the graph and no node reaches itself
Acyclic ==
    \A n \in DOMAIN nodes :
        /\ nodes[n].deps \subseteq DOMAIN nodes
        /\ n \notin Ancestors(n, DepsOf(nodes))

\* C13: an add call whose dependency set would close a cycle, a dependency
\* on the node's own identifier included, throws CycleDetected and adds
\* nothing; the dependency graph is acyclic in every state.
C13_NoCycle ==
    /\ [][buildError' = "CycleDetected" => UNCHANGED GraphFields]_vars
    /\ []Acyclic

\* an add call threw CycleDetected on a graph that holds a dependency edge
C13_Witness ==
    /\ buildError = "CycleDetected"
    /\ \E n \in DOMAIN nodes : nodes[n].deps # {}

\* C14 as claimed: no two added nodes share an identifier, so the graph
\* holds as many nodes as add calls have succeeded.
C14_UniqueIdentifiers == Cardinality(DOMAIN nodes) = addCount

----------------------------------------------------------------------------
\* Properties of runPromptSequentially (specifications SpecSeq, SpecSeqLive).

\* operations started (inference rounds and tool calls) that have neither
\* pushed their event nor thrown
SeqInFlight ==
    llmCount + toolRuns - Len(events) - (IF thrown THEN 1 ELSE 0)

\* C15: runPromptSequentially has at most one operation in flight; its events
\* do not overlap and come in the order round, that round's tools in request
\* order, next round.
C15_OneAtATime ==
    /\ SeqInFlight \in {0, 1}
    /\ SeqInFlight = 1 <=> pc \in {"stream", "tool"}
    /\ \A i \in 1..Len(events) : \A j \in 1..Len(events) :
          i < j => events[i].end <= events[j].start
    /\ Len(events) >= 1 => events[1] = LLMEvent(LLMName(0), events[1].start,
                                                events[1].end)
    /\ \A i \in 1..Len(events) - 1 :
          events[i + 1].type = "llm" =>
              \/ events[i].type = "tool"
              \/ (thrown /\ i + 1 = Len(events))
    /\ pc = "tool" =>
          LET base == Len(events) - fcIndex + 1
          IN  /\ base >= 1
              /\ events[base].type = "llm"
              /\ events[base].name = LLMName(llmCount - 1)
              /\ \A k \in 1..fcIndex - 1 :
                    /\ events[base + k].type = "tool"
                    /\ events[base + k].name = SeqToolName(functionCalls[k])
    /\ pc = "returned" =>
          /\ events[Len(events)].type = "llm"
          /\ events[Len(events)].name = LLMName(llmCount - 1)

\* the two-round, one-tool interaction: inference, tool, inference, the
\* first two taking time
C15_Witness ==
    /\ pc = "returned"
    /\ Len(events) = 3
    /\ events[1].type = "llm" /\ events[1].start < events[1].end
    /\ events[2].type = "tool" /\ events[2].start < events[2].end
    /\ events[3].type = "llm"

\* C16 as claimed: runPromptSequentially returns only from a round that
\* requested no tool, and returns the text accumulated from that round's
\* response.
C16_ReturnsFinalRoundText ==
    pc = "returned" =>
        /\ Len(functionCalls) = 0
        /\ retVal = roundOutput

\* C17 as claimed: once the call has returned or thrown, every inference
\* round and every tool execution attempt, completed or failed, has appended
\* exactly one event.
C17_EventPerAttempt ==
    pc \in {"returned", "rejected"} => Len(events) = llmCount + toolRuns

\* C18: a stream error, an abort seen in the stream or a tool call that
\* throws ends runPromptSequentially: the call has rejected, and from then
\* on no inference call and no tool call is started, nothing is logged and
\* nothing is returned.
C18_FailureEndsLoop ==
    /\ [](thrown => pc = "rejected" /\ retVal = NoValue /\ SeqInFlight = 0)
    /\ [][thrown => UNCHANGED <<llmCount, toolRuns, events, output, retVal,
                                pc>>]_vars

\* the second of two requested tools threw, after the signal was aborted
C18_Witness ==
    /\ thrown
    /\ aborted
    /\ pc = "rejected"
    /\ fcIndex = 2
    /\ Len(events) = 2

----------------------------------------------------------------------------
\* Properties of cancellation (specification SpecAbort).

\* C20 as claimed: once the signal passed to runPromptWithTools is aborted,
\* every inference call and every tool execution in flight has been handed a
\* signal that is aborted.
C20_SignalThreaded ==
    aborted =>
        /\ pc \in {"discover", "follow"} => DriverSignalAborted
        /\ \A n \in DOMAIN status :
              status[n] = "running" => UnitSignalAborted(n)

----------------------------------------------------------------------------
\* Further properties of runPromptWithTools (specification SpecDriver).

\* the names in the driver's toolNodeNames array
ToolNodeNameSet == {toolNodeNames[i] : i \in 1..Len(toolNodeNames)}

\* C21: runPromptWithTools makes at most two inference calls, one after the
\* other; the graph holds only the tool nodes of the discovery response,
\* none depending on another; once the follow-up has answered, the call has
\* returned and nothing more runs, whatever that answer asks for.
C21_TwoLevelWorkflow ==
    /\ [](/\ llmCalls <= 2
          /\ DOMAIN nodes = ToolNodeNameSet
          /\ \A n \in DOMAIN nodes :
                nodes[n].kind = "tool" /\ nodes[n].deps = {} /\ declared[n] = {}
          /\ llmCalls = 2 =>
                \E i \in 1..Len(events) :
                    events[i].name = PlanName /\ events[i].end <= followStart
          /\ finalResp # NoResp => pc = "returned")
    /\ [][pc = "returned" =>
              UNCHANGED <<nodes, status, startCount, llmCalls, events, pc>>]_vars

\* the follow-up response asked for a tool after two tools had run
C21_Witness ==
    /\ pc = "returned"
    /\ Len(finalResp.calls) >= 1
    /\ Cardinality(DOMAIN nodes) = 2
    /\ \A n \in DOMAIN nodes : startCount[n] = 1

\* C28: a failing discovery call leaves exactly one event, llm_plan, and the
\* call rejected with no scheduler, no tool run and no follow-up call; a
\* failing follow-up call leaves exactly one event of its own and the call
\* rejected.
C28_FailedCallLogged ==
    /\ (pc = "rejected" /\ initialResp = NoResp) =>
          /\ Len(events) = 1
          /\ events[1].type = "llm"
          /\ events[1].name = <<"llm_plan">>
          /\ events[1].start = planStart
          /\ llmCalls = 1
          /\ phase = "none"
          /\ nodes = EmptyMap
          /\ status = EmptyMap
          /\ retVal = NoValue
    /\ (pc = "rejected" /\ llmCalls = 2) =>
          /\ Cardinality(EventsOf(LLMName(0))) = 1
          /\ events[Len(events)].name = LLMName(0)
          /\ events[Len(events)].type = "llm"
          /\ events[Len(events)].start = followStart
          /\ finalResp = NoResp
          /\ retVal = NoValue

\* the discovery call failed after taking time
C28_Witness ==
    /\ pc = "rejected"
    /\ initialResp = NoResp
    /\ Len(events) = 1
    /\ events[1].start < events[1].end

----------------------------------------------------------------------------
\* Identifiers, the event log and abandoned siblings.

\* the inference nodes the add calls have returned
AddedLLM == {n \in added : n[1] = "llm"}

\* C22 as claimed: the k-th inference node added on a fresh scheduler is
\* llm_(k-1) whatever tool nodes were added in between, adding a tool node
\* does not advance the counter, and every event carries an identifier an add
\* call returned.
C22_DeterministicIds ==
    /\ AddedLLM = {LLMName(i) : i \in 0..(Cardinality(AddedLLM) - 1)}
    /\ \A n \in added : n[1] = "tool" => nodes[n].kind = "tool"
    /\ \A i \in 1..Len(events) : events[i].name \in added

\* C24: the event log only grows at its end, one entry per append, earlier
\* entries untouched, and every operation that finished has its one entry
\* with the start it captured, in whatever order the nodes completed.
C24_AppendOnlyLog ==
    /\ [][\/ events' = events
          \/ /\ Len(events') = Len(events) + 1
             /\ SubSeq(events', 1, Len(events)) = events]_vars
    /\ [](\A n \in DOMAIN status : Settled(n) =>
              \E i \in 1..Len(events) :
                  /\ events[i].name = n
                  /\ events[i].type = nodes[n].kind
                  /\ events[i].start = startTime[n]
                  /\ events[i].start <= events[i].end
                  /\ \A j \in 1..Len(events) : events[j].name = n => j = i)

\* two nodes started together and finished at different times, a third
\* finished after them
C24_Witness ==
    /\ phase = "resolved"
    /\ Len(events) = 3
    /\ events[1].start = events[2].start
    /\ events[1].end < events[2].end

\* C26: a failure cancels nothing: a node in flight stays in flight until
\* its own unit of work settles, which appends its event, and it can still
\* settle after run() has rejected and the driver has rejected in turn.
C26_SiblingsNotCancelled ==
    /\ [](\A n \in DOMAIN status :
              status[n] \in {"pending", "running", "done", "failed"})
    /\ [][\A n \in DOMAIN status :
              (status[n] = "running" /\ n \in DOMAIN status'
                   /\ status'[n] # "running") =>
                  /\ status'[n] \in {"done", "failed"}
                  /\ Len(events') = Len(events) + 1
                  /\ events'[Len(events')].name = n]_vars
    /\ [](phase = "rejected" =>
              \A n \in DOMAIN status :
                  status[n] = "running" => ENABLED Complete(n, TRUE, <<>>))

\* the driver has rejected while a sibling of the failed tool is in flight
C26_Witness ==
    /\ pc = "rejected"
    /\ phase = "rejected"
    /\ \E n \in DOMAIN status : status[n] = "running"
    /\ \E i \in 1..Len(events) : events[i].name = runError

----------------------------------------------------------------------------
\* Properties of the round messages of runPromptSequentially
\* (specification SpecSeqParts).

\* the parts a result contributes: its items that are not null, a string
\* as a text part
ResultParts(result) ==
    LET keep == SelectSeq(result.items, LAMBDA it : it.kind # "null")
    IN  IF result.present
           THEN [i \in 1..Len(keep) |-> [text |-> keep[i].text]]
           ELSE <<>>

\* the parts of results rs, one result after the other, from result i on
RECURSIVE RoundParts(_, _)
RoundParts(rs, i) ==
    IF i > Len(rs) THEN <<>> ELSE ResultParts(rs[i]) \o RoundParts(rs, i + 1)

\* C27: the message of a round after the first is exactly the response
\* parts of the tools of the round before, in the order the tools were
\* requested, without the prompt or older parts; a tool without response
\* parts adds nothing.  The first round sends the prompt.
C27_NextMessageIsToolParts ==
    /\ (pc = "stream" /\ llmCount = 1) => currentMessages = PromptParts
    /\ (pc = "stream" /\ llmCount >= 2) =>
           currentMessages = RoundParts(roundResults, 1)
    /\ pc = "tool" =>
           /\ Len(roundResults) = fcIndex - 1
           /\ toolParts = RoundParts(roundResults, 1)
    /\ pc = "tool" =>
           \A i \in 1..Len(roundResults) :
               roundResults[i] \in SeqToolResults(functionCalls[i])

\* a second round is being sent after a round of two tools, the first with
\* response parts and the second without
C27_Witness ==
    /\ pc = "stream"
    /\ llmCount = 2
    /\ Len(roundResults) = 2
    /\ roundResults[1].present
    /\ roundResults[1].isArray
    /\ ~roundResults[2].present
    /\ currentMessages = <<[text |-> "dummy"], [text |-> "more"]>>

----------------------------------------------------------------------------
\* Properties of time limits (specification SpecTimeout).

\* C29 as claimed: every operation runs under a ceiling of 300 seconds: an
\* operation that has been in flight that long has been handed a signal
\* that is aborted, be it a node's unit of work or one of the driver's two
\* direct inference calls.
C29_TimeoutCeiling ==
    /\ \A n \in DOMAIN status :
          (status[n] = "running" /\ clock - startTime[n] >= TimeoutMs)
              => UnitSignalAborted(n)
    /\ (pc = "discover" /\ clock - planStart >= TimeoutMs) => DriverSignalAborted
    /\ (pc = "follow" /\ clock - followStart >= TimeoutMs) => DriverSignalAborted

----------------------------------------------------------------------------
\* runPromptWithTools as the graph-only driver writes it: the discovery call
\* and the follow-up call are nodes of the scheduler's graph, and the
\* scheduler, built without an events array, is run twice.

GoCallSeqs ==
    {<<>>,
     <<[id |-> "a", name |-> "dummy"]>>,
     <<[id |-> "a", name |-> "dummy"], [id |-> "b", name |-> "dummy"]>>,
     <<[id |-> "a", name |-> "missing"]>>}

\* what an LLM node's generateContent can resolve with
GoResponses == [text : {"hello", "final"}, calls : GoCallSeqs]

\* const llmNode = scheduler.addLLMCall(prompt)
GoLLMNode == LLMName(0)

GoToolDeps_None == {}

\* scheduler.addToolCall(request, [llmNode])
GoToolDeps == {GoLLMNode}

\* the for loop over functionCalls: one addToolCall per call, from call i on;
\* it stops at the first add call that throws
RECURSIVE GoBuildTools(_, _, _, _)
GoBuildTools(g, calls, i, names) ==
    IF i > Len(calls)
        THEN [g |-> g, names |-> names, thrown |-> FALSE]
        ELSE LET request == [callId |-> CallIdOf(calls[i], clock),
                             name |-> calls[i].name]
                 g1 == AddToolCall(g, request, GoToolDeps)
             IN  IF g1.err # "none"
                    THEN [g |-> g1, names |-> names, thrown |-> TRUE]
                    ELSE GoBuildTools(g1, calls, i + 1,
                                      Append(names, ToolName(request.callId)))

\* let finalNode = llmNode; if (toolNodeNames.length) finalNode =
\* scheduler.addLLMCall('continue', toolNodeNames)
GoAddFinal(g, names) ==
    IF Len(names) > 0
        THEN AddLLMCall(g, {names[i] : i \in 1..Len(names)})
        ELSE g

\* the name addLLMCall returned last: llmNode, or the follow-up node
GoFinalNode == LLMName(nodeCount - 1)

\* how often generateContent has been called
GoInferenceCalls ==
    LET S == {n \in DOMAIN startCount : nodes[n].kind = "llm"}
        RECURSIVE Sum(_)
        Sum(T) == IF T = {} THEN 0
                  ELSE LET n == CHOOSE m \in T : TRUE
                       IN  startCount[n] + Sum(T \ {n})
    IN  Sum(S)

\* new TygentScheduler(client, registry); addLLMCall(prompt); run()
GoBegin ==
    /\ pc = "start"
    /\ LET g == AddLLMCall(EmptyGraph, {})
       IN  /\ SetGraph(g)
           /\ Run(g.nodes)
    /\ pc' = "run1"
    /\ UNCHANGED <<events, clock, llmCalls, initialResp, finalResp,
                   toolNodeNames, planStart, followStart, followParts, retVal>>
    /\ UNCHANGED seqVars
    /\ UNCHANGED auxVars
    /\ UNCHANGED <<orchVars, hookVars>>

\* a node's unit of work returns: an LLM node a response, a tool node its
\* result
GoNodeSucceeds ==
    /\ \E n \in DOMAIN status :
          IF nodes[n].kind = "llm"
             THEN \E resp \in GoResponses : Complete(n, TRUE, resp)
             ELSE \E out \in ToolOutputs : Complete(n, TRUE, out)
    /\ UNCHANGED <<clock, driverVars>>
    /\ UNCHANGED seqVars
    /\ UNCHANGED auxVars
    /\ UNCHANGED <<orchVars, hookVars>>

\* a node's unit of work throws
GoNodeFails ==
    /\ \E n \in DOMAIN status : Complete(n, FALSE, "none")
    /\ UNCHANGED <<clock, driverVars>>
    /\ UNCHANGED seqVars
    /\ UNCHANGED auxVars
    /\ UNCHANGED <<orchVars, hookVars>>

\* the first run() has resolved: read the function calls of llmNode's
\* response, add a tool node per call and the follow-up node, run() again
GoAfterFirstRun ==
    /\ pc = "run1"
    /\ phase = "resolved"
    /\ initialResp' = returned[GoLLMNode]
    /\ LET b == GoBuildTools(Graph, returned[GoLLMNode].calls, 1, <<>>)
           g == GoAddFinal(b.g, b.names)
       IN  /\ toolNodeNames' = b.names
           /\ IF b.thrown
                 THEN /\ SetGraph(b.g)
                      /\ pc' = "rejected"
                      /\ UNCHANGED runVars
                 ELSE /\ SetGraph(g)
                      /\ pc' = "run2"
                      /\ Run(g.nodes)
    /\ UNCHANGED <<events, clock, llmCalls, finalResp, planStart, followStart,
                   followParts, retVal>>
    /\ UNCHANGED seqVars
    /\ UNCHANGED auxVars
    /\ UNCHANGED <<orchVars, hookVars>>

\* the second run() has resolved: return the text of finalNode's response
GoAfterSecondRun ==
    /\ pc = "run2"
    /\ phase = "resolved"
    /\ finalResp' = returned[GoFinalNode]
    /\ retVal' = ResponseText(returned[GoFinalNode])
    /\ pc' = "returned"
    /\ UNCHANGED <<graphVars, runVars, events, clock, llmCalls, initialResp,
                   toolNodeNames, planStart, followStart, followParts>>
    /\ UNCHANGED seqVars
    /\ UNCHANGED auxVars
    /\ UNCHANGED <<orchVars, hookVars>>

\* a run() has rejected: the await throws out of runPromptWithTools
GoRunRejects ==
    /\ pc \in {"run1", "run2"}
    /\ phase = "rejected"
    /\ pc' = "rejected"
    /\ UNCHANGED <<graphVars, runVars, events, clock, llmCalls, initialResp,
                   finalResp, toolNodeNames, planStart, followStart,
                   followParts, retVal>>
    /\ UNCHANGED seqVars
    /\ UNCHANGED auxVars
    /\ UNCHANGED <<orchVars, hookVars>>

GoInit ==
    /\ GraphInit
    /\ RunInit
    /\ phase = "none"
    /\ DriverIdle
    /\ pc = "start"
    /\ events = <<>>
    /\ clock = 0
    /\ SeqIdle
    /\ logging = FALSE
    /\ addLog = <<>>
    /\ firstKeys = {}
    /\ runNo = 1
    /\ toolShapes = {"absent"}
    /\ OrchIdle
    /\ HookIdle

GoNext ==
    \/ GoBegin
    \/ GoNodeSucceeds
    \/ GoNodeFails
    \/ GoAfterFirstRun
    \/ GoAfterSecondRun
    \/ GoRunRejects

SpecGraphOnly == GoInit /\ [][GoNext]_vars

\* C25 as claimed: the graph is written only while it is built: once a run
\* of the scheduler has started, no node, no dependency and no counter of
\* the graph changes any more.
C25_GraphWrittenOnlyInBuild ==
    [][(phase \in {"running", "resolved", "rejected"})
          => (UNCHANGED <<nodes, declared, added, addCount, nodeCount>>)]_vars

\* C30 as claimed: in the graph-only driver every node's unit of work is
\* executed exactly once over the whole call, so that a prompt that asks
\* for no tool costs one call of the inference client.
C30_EachNodeOnce ==
    /\ \A n \in DOMAIN startCount : startCount[n] <= 1
    /\ (pc = "returned" /\ Len(initialResp.calls) = 0) => GoInferenceCalls = 1

----------------------------------------------------------------------------
\* A caller that builds a graph and runs it, then builds a new scheduler
\* with the same add calls in the same order and runs that one.  The units
\* of work are deterministic: each returns as it did in the first run.

\* the add call made last, as the caller repeats it
LLMCall(dependsOn) ==
    [kind |-> "llm", request |-> [callId |-> <<"id", "none">>, name |-> "none"],
     dependsOn |-> dependsOn]

ToolCall(request, dependsOn) ==
    [kind |-> "tool", request |-> request, dependsOn |-> dependsOn]

\* one add call of the log made on graph g
Repeat(g, call) ==
    IF call.kind = "llm"
        THEN AddLLMCall(g, call.dependsOn)
        ELSE AddToolCall(g, call.request, call.dependsOn)

\* the add calls of log from call i on, made on graph g
RECURSIVE Replay(_, _, _)
Replay(log, i, g) ==
    IF i > Len(log) THEN g ELSE Replay(log, i + 1, Repeat(g, log[i]))

RerunAddLLM ==
    /\ CanAdd
    /\ runNo = 1
    /\ Len(addLog) < MaxAdds
    /\ \E dependsOn \in DepChoices :
           /\ SetGraph(AddLLMCall(Graph, dependsOn))
           /\ addLog' = Append(addLog, LLMCall(dependsOn))
    /\ UNCHANGED <<runVars, events, clock, driverVars>>
    /\ UNCHANGED seqVars
    /\ UNCHANGED <<logging, firstKeys, runNo, toolShapes>>
    /\ UNCHANGED <<orchVars, hookVars>>

RerunAddTool ==
    /\ CanAdd
    /\ runNo = 1
    /\ Len(addLog) < MaxAdds
    /\ \E request \in Requests :
           \E dependsOn \in DepChoices :
               /\ SetGraph(AddToolCall(Graph, request, dependsOn))
               /\ addLog' = Append(addLog, ToolCall(request, dependsOn))
    /\ UNCHANGED <<runVars, events, clock, driverVars>>
    /\ UNCHANGED seqVars
    /\ UNCHANGED <<logging, firstKeys, runNo, toolShapes>>
    /\ UNCHANGED <<orchVars, hookVars>>

\* the first run has resolved: keep its mapping's keys, build a new
\* scheduler with a new events array by the same add calls, and run it
Rebuild ==
    /\ runNo = 1
    /\ phase = "resolved"
    /\ firstKeys' = DOMAIN returned
    /\ runNo' = 2
    /\ events' = <<>>
    /\ LET g == Replay(addLog, 1, EmptyGraph)
       IN  /\ SetGraph(g)
           /\ RunFrom(g.nodes, [m \in DOMAIN g.nodes |-> 0])
    /\ UNCHANGED <<clock, driverVars>>
    /\ UNCHANGED seqVars
    /\ UNCHANGED <<logging, addLog, toolShapes>>
    /\ UNCHANGED <<orchVars, hookVars>>

RerunNext ==
    \/ RerunAddLLM
    \/ RerunAddTool
    \/ CallerRun
    \/ NodeSucceeds
    \/ Rebuild

SpecRerun == Init /\ [][RerunNext]_vars

\* C23: the mapping the second run returns, on a scheduler rebuilt by the
\* same add calls in the same order, has the same keys as the mapping of
\* the first run, whatever the order in which nodes completed in either
\* run; the rebuilt graph has the same nodes and dependencies.
C23_SameKeysOnRerun ==
    /\ (runNo = 2 /\ phase = "resolved") => DOMAIN returned = firstKeys
    /\ runNo = 2 =>
          /\ DOMAIN nodes = firstKeys
          /\ \A n \in DOMAIN results : n \in firstKeys

\* a second run has resolved on a rebuilt graph of an inference node and
\* two nodes that could complete in either order
C23_Witness ==
    /\ runNo = 2
    /\ phase = "resolved"
    /\ Cardinality(firstKeys) = 3
    /\ \E n \in firstKeys : nodes[n].kind = "llm" /\ nodes[n].deps # {}
    /\ \E n, m \in firstKeys :
          /\ n # m
          /\ nodes[n].deps = {}
          /\ nodes[m].deps = {}

----------------------------------------------------------------------------
\* Further properties of runPromptWithTools (specification SpecDriver).

\* the discovery response asks for a tool the registry does not hold
AsksMissingTool ==
    \E i \in 1..Len(initialResp.calls) : initialResp.calls[i].name \notin Registry

\* C32: when one of the requested tools is not in the registry the call
\* fails while the graph is built: no tool starts, not even one that was
\* requested earlier in the list and is in the registry, no follow-up call
\* is made, and the log holds the discovery event alone.
C32_MissingToolNothingRuns ==
    AsksMissingTool =>
        /\ pc = "rejected"
        /\ buildError = "ToolNotFound"
        /\ phase = "build"
        /\ status = EmptyMap
        /\ ToolExecutions = 0
        /\ llmCalls = 1
        /\ Len(events) = 1
        /\ events[1].name = PlanName

\* the call has failed on a request list whose first tool is in the
\* registry and whose second is not
C32_Witness ==
    /\ pc = "rejected"
    /\ Len(initialResp.calls) = 2
    /\ initialResp.calls[1].name \in Registry
    /\ initialResp.calls[2].name \notin Registry
    /\ DOMAIN nodes # {}
    /\ events # <<>>

\* the parts of the executions of the requested tools, one request after
\* the other, from request i on; each node's execution counted for the
\* first request that names it
RECURSIVE PartsByRequest(_, _, _)
PartsByRequest(names, res, i) ==
    IF i > Len(names)
        THEN <<>>
        ELSE (IF \E j \in 1..(i - 1) : names[j] = names[i]
                 THEN <<>>
                 ELSE res[names[i]])
             \o PartsByRequest(names, res, i + 1)

\* C33 as claimed: the input of the follow-up call is the response parts of
\* the requested tools in request order, with the parts of every requested
\* tool in it exactly once, whatever the order in which the tools completed.
C33_FollowUpInputInRequestOrder ==
    llmCalls = 2 =>
        /\ Len(toolNodeNames) = Len(initialResp.calls)
        /\ \A i \in 1..Len(toolNodeNames) : toolNodeNames[i] \in DOMAIN results
        /\ followParts = PartsByRequest(toolNodeNames, results, 1)

\* C34 as claimed: a call that returns after asking for n >= 1 tools has
\* logged n + 2 events: the discovery event first, the follow-up event
\* last, and between them one tool event per requested invocation.
C34_EventCount ==
    (pc = "returned" /\ Len(initialResp.calls) >= 1) =>
        /\ Len(events) = Len(initialResp.calls) + 2
        /\ events[1].name = PlanName
        /\ events[Len(events)].name = LLMName(0)
        /\ \A i \in 2..(Len(events) - 1) : events[i].type = "tool"

----------------------------------------------------------------------------
\* Properties of event timestamps (specification Spec).

\* C35: every event has start <= end, and an event is appended when its
\* operation ends, so the log is in the order of the end timestamps: no
\* event ends later than one appended after it, or later than the clock.
C35_LogOrderedByEnd ==
    /\ \A i \in 1..Len(events) :
          /\ events[i].start <= events[i].end
          /\ events[i].end <= clock
    /\ \A i, j \in 1..Len(events) : i < j => events[i].end <= events[j].end

\* a log that is not in the order of the start timestamps: a node that
\* started later is logged before one that started earlier, and took time
C35_Witness ==
    \E i, j \in 1..Len(events) :
        /\ i < j
        /\ events[i].start > events[j].start
        /\ events[j].start < events[j].end
        /\ events[j].type = "tool"

----------------------------------------------------------------------------
\* Properties of the event labels of runPromptSequentially (SpecSeq).

\* the inference events of the log, in log order
SeqLLMEvents == SelectSeq(events, LAMBDA e : e.type = "llm")

\* the tool events of the log, in log order
SeqToolEvents == SelectSeq(events, LAMBDA e : e.type = "tool")

\* C36: the inference events are labelled llm_0, llm_1, ... in the order
\* the rounds ran, and when the call has returned there is one inference
\* event per round, that is one more than the rounds that asked for tools,
\* and one tool event per tool invocation asked for.
C36_SequentialLabels ==
    /\ \A k \in 1..Len(SeqLLMEvents) : SeqLLMEvents[k].name = LLMName(k - 1)
    /\ pc = "returned" =>
          /\ Len(SeqLLMEvents) = toolRounds + 1
          /\ Len(SeqLLMEvents) = llmCount
          /\ Len(SeqToolEvents) = toolRuns
          /\ Len(events) = llmCount + toolRuns

\* a call that returned after a round of two tools and a second round
C36_Witness ==
    /\ pc = "returned"
    /\ toolRounds = 1
    /\ toolRuns = 2
    /\ Len(SeqLLMEvents) = 2
    /\ SeqLLMEvents[2].name = LLMName(1)

----------------------------------------------------------------------------
\* TygentOrchestrator (packages/core/src/tools/tygent-orchestrator.ts).

\* the tool call requests execute can be given
OrchRequests == [callId : {"a", "b", "c"}, name : FcNames]

OrchRequestLists == UNION {[1..j -> OrchRequests] : j \in 0..MaxCalls}

\* what the orchestrator does not touch
orchOthers == <<graphVars, runVars, events, clock, driverVars, seqVars,
                auxVars, hookVars>>

\* execute(requests, signal) is called: console.log(...) and
\* return Promise.resolve()
OrchExecute ==
    /\ orchPc = "idle"
    /\ \E requests \in OrchRequestLists :
          /\ orchRequests' = requests
          /\ orchLog' = Append(orchLog, [requests |-> requests,
                                         aborted |-> orchAborted])
    /\ orchPc' = "called"
    /\ UNCHANGED <<orchAborted, orchExecuted>>
    /\ UNCHANGED orchOthers

\* the promise execute returned resolves
OrchResolve ==
    /\ orchPc = "called"
    /\ orchPc' = "resolved"
    /\ UNCHANGED <<orchRequests, orchAborted, orchLog, orchExecuted>>
    /\ UNCHANGED orchOthers

\* the caller aborts the signal it passes to execute
OrchAbort ==
    /\ ~orchAborted
    /\ orchAborted' = TRUE
    /\ UNCHANGED <<orchPc, orchRequests, orchLog, orchExecuted>>
    /\ UNCHANGED orchOthers

\* a constructed TygentOrchestrator
OrchInit ==
    /\ GraphInit
    /\ RunInit
    /\ phase = "none"
    /\ DriverIdle
    /\ pc = "unused"
    /\ events = <<>>
    /\ clock = 0
    /\ SeqIdle
    /\ AuxIdle
    /\ HookIdle
    /\ orchPc = "idle"
    /\ orchRequests = <<>>
    /\ orchAborted = FALSE
    /\ orchLog = <<>>
    /\ orchExecuted = {}

OrchNext ==
    \/ OrchExecute
    \/ OrchResolve
    \/ OrchAbort

SpecOrchestrator == OrchInit /\ [][OrchNext]_vars

\* C31 as claimed: execute executes the tool call of every request it is
\* given, and its promise resolves only once all of them have completed.
C31_OrchestratorExecutesAll ==
    orchPc = "resolved" =>
        \A i \in 1..Len(orchRequests) : orchRequests[i].callId \in orchExecuted

----------------------------------------------------------------------------
\* useReactToolScheduler (the React hook of the CLI).  CoreToolScheduler,
\* the tool registry and the tools are outside src/: the core scheduler is
\* modelled as a source of updates, a tool as an operation that returns or
\* throws.

HookRequest(id, name) == [callId |-> <<"id", id>>, name |-> name]

\* the request lists schedule() is called with
HookRequestLists ==
    {<<HookRequest("a", "dummy")>>,
     <<HookRequest("a", "dummy"), HookRequest("b", "dummy")>>,
     <<HookRequest("b", "dummy"), HookRequest("c", "missing")>>}

\* what the hook does not touch
hookOthers == <<graphVars, runVars, events, clock, driverVars, seqVars,
                auxVars, orchVars>>

\* { status: 'executing', request: req, tool: ... }
ExecutingCall(req) ==
    [request |-> req, status |-> "executing",
     responseSubmittedToGemini |-> "unset"]

CompletedStatus_CancelOnAbort(b) == IF b.aborted THEN "cancelled" ELSE "success"

\* status: 'success' of every entry of completed
CompletedStatus(b) == "success"

\* the entry of completed for request req of batch b
CompletedCall(b, req) ==
    [request |-> req, status |-> CompletedStatus(b),
     responseSubmittedToGemini |-> "unset"]

\* requests.map(...)
ExecutingCalls(requests) ==
    [i \in 1..Len(requests) |-> ExecutingCall(requests[i])]

CompletedCalls(b) ==
    [i \in 1..Len(b.requests) |-> CompletedCall(b, b.requests[i])]

\* requests.forEach((r) => tygent.addToolCall(r)), from request i on: it
\* stops at the first add call that throws
RECURSIVE HookBuild(_, _, _)
HookBuild(g, requests, i) ==
    IF i > Len(requests)
        THEN g
        ELSE LET g1 == AddToolCall(g, requests[i], {})
             IN  IF g1.err # "none" THEN g1 ELSE HookBuild(g1, requests, i + 1)

MarkSubmitted_All(calls, ids) ==
    [i \in 1..Len(calls) |->
        [calls[i] EXCEPT !.responseSubmittedToGemini = "true"]]

\* prevCalls.map((tc) => callIdsToMark.includes(tc.request.callId)
\*     ? { ...tc, responseSubmittedToGemini: true } : tc)
MarkSubmitted(calls, ids) ==
    [i \in 1..Len(calls) |->
        IF calls[i].request.callId \in ids
           THEN [calls[i] EXCEPT !.responseSubmittedToGemini = "true"]
           ELSE calls[i]]

\* prevTrackedCalls.find((ptc) => ptc.request.callId === callId)
\*     ?.responseSubmittedToGemini ?? false
KeptFlag(prev, callId) ==
    LET found == {k \in 1..Len(prev) : prev[k].request.callId = callId}
    IN  IF found = {}
           THEN "false"
           ELSE LET first == CHOOSE k \in found : \A m \in found : k <= m
                IN  IF prev[first].responseSubmittedToGemini = "unset"
                       THEN "false"
                       ELSE prev[first].responseSubmittedToGemini

\* toolCallsUpdateHandler: updatedCoreToolCalls.map(...)
UpdateTracked(prev, updated) ==
    [i \in 1..Len(updated) |->
        [request |-> updated[i].request, status |-> updated[i].status,
         responseSubmittedToGemini |-> KeptFlag(prev, updated[i].request.callId)]]

\* the tool calls an update of the core scheduler can carry
CoreCalls ==
    [request : {HookRequest("a", "dummy"), HookRequest("b", "dummy")},
     status : {"executing", "success", "error"}]

CoreUpdates == UNION {[1..j -> CoreCalls] : j \in 0..MaxTracked}

\* schedule(request, signal) in Tygent mode: tygentSchedule runs up to its
\* first await.  (Otherwise the requests go to the core scheduler, whose
\* reports are CoreUpdate.)
HookSchedule ==
    /\ useTygent
    /\ Len(batch) < MaxBatches
    /\ \E requests \in HookRequestLists :
          batch' = Append(batch,
                          [requests |-> requests, aborted |-> FALSE,
                           pc |-> "registry", st |-> EmptyMap])
    /\ UNCHANGED <<useTygent, toolCallsForDisplay, completions>>
    /\ UNCHANGED <<hookOthers>>

\* tygentSchedule after `await config.getToolRegistry()`: the display is
\* set to the batch's executing calls, the tool nodes are added and run()
\* is called
TygentStart(b) ==
    /\ batch[b].pc = "registry"
    /\ toolCallsForDisplay' = ExecutingCalls(batch[b].requests)
    /\ LET g == HookBuild(EmptyGraph, batch[b].requests, 1)
       IN  batch' = [batch EXCEPT
               ![b].pc = IF g.err # "none" THEN "rejected" ELSE "running",
               ![b].st = IF g.err # "none"
                            THEN EmptyMap
                            ELSE [n \in DOMAIN g.nodes |-> "running"]]
    /\ UNCHANGED <<useTygent, completions>>
    /\ UNCHANGED <<hookOthers>>

\* a tool of batch b returns
HookToolSucceeds(b) ==
    /\ \E n \in DOMAIN batch[b].st :
          /\ batch[b].st[n] = "running"
          /\ batch' = [batch EXCEPT ![b].st[n] = "done"]
    /\ UNCHANGED <<useTygent, toolCallsForDisplay, completions>>
    /\ UNCHANGED <<hookOthers>>

\* a tool of batch b throws
HookToolFails(b) ==
    /\ \E n \in DOMAIN batch[b].st :
          /\ batch[b].st[n] = "running"
          /\ batch' = [batch EXCEPT ![b].st[n] = "failed"]
    /\ UNCHANGED <<useTygent, toolCallsForDisplay, completions>>
    /\ UNCHANGED <<hookOthers>>

\* tygent.run() has resolved: the display is set to the completed calls
\* and onComplete is called with them
TygentFinish(b) ==
    /\ batch[b].pc = "running"
    /\ \A n \in DOMAIN batch[b].st : batch[b].st[n] = "done"
    /\ toolCallsForDisplay' = CompletedCalls(batch[b])
    /\ completions' = Append(completions,
                             [batch |-> b, tools |-> CompletedCalls(batch[b])])
    /\ batch' = [batch EXCEPT ![b].pc = "done"]
    /\ UNCHANGED useTygent
    /\ UNCHANGED <<hookOthers>>

\* tygent.run() has rejected: tygentSchedule's promise, which schedule
\* discarded with `void`, rejects
TygentRejects(b) ==
    /\ batch[b].pc = "running"
    /\ \E n \in DOMAIN batch[b].st : batch[b].st[n] = "failed"
    /\ batch' = [batch EXCEPT ![b].pc = "rejected"]
    /\ UNCHANGED <<useTygent, toolCallsForDisplay, completions>>
    /\ UNCHANGED <<hookOthers>>

\* the caller aborts the signal it passed to schedule() for batch b while
\* tygentSchedule is at one of its awaits
HookAbort(b) ==
    /\ ~batch[b].aborted
    /\ batch[b].pc \in {"registry", "running"}
    /\ batch' = [batch EXCEPT ![b].aborted = TRUE]
    /\ UNCHANGED <<useTygent, toolCallsForDisplay, completions>>
    /\ UNCHANGED <<hookOthers>>

\* markToolsAsSubmitted(callIdsToMark)
MarkToolsAsSubmitted ==
    /\ \E ids \in SUBSET {<<"id", "a">>, <<"id", "b">>} :
          toolCallsForDisplay' = MarkSubmitted(toolCallsForDisplay, ids)
    /\ UNCHANGED <<useTygent, batch, completions>>
    /\ UNCHANGED <<hookOthers>>

\* the core scheduler reports its tool calls: toolCallsUpdateHandler
CoreUpdate ==
    /\ ~useTygent
    /\ \E updated \in CoreUpdates :
          toolCallsForDisplay' = UpdateTracked(toolCallsForDisplay, updated)
    /\ UNCHANGED <<useTygent, batch, completions>>
    /\ UNCHANGED <<hookOthers>>

\* a mounted hook
HookMounted ==
    /\ GraphInit
    /\ RunInit
    /\ phase = "none"
    /\ DriverIdle
    /\ pc = "unused"
    /\ events = <<>>
    /\ clock = 0
    /\ SeqIdle
    /\ AuxIdle
    /\ OrchIdle
    /\ toolCallsForDisplay = <<>>
    /\ batch = <<>>
    /\ completions = <<>>

\* config.isTygentEnabled() is true
HookInit == HookMounted /\ useTygent = TRUE

\* config.isTygentEnabled() is false
HookCoreInit == HookMounted /\ useTygent = FALSE

HookNext ==
    \/ HookSchedule
    \/ \E b \in 1..Len(batch) : TygentStart(b)
    \/ \E b \in 1..Len(batch) : HookToolSucceeds(b)
    \/ \E b \in 1..Len(batch) : HookToolFails(b)
    \/ \E b \in 1..Len(batch) : TygentFinish(b)
    \/ \E b \in 1..Len(batch) : TygentRejects(b)
    \/ \E b \in 1..Len(batch) : HookAbort(b)
    \/ MarkToolsAsSubmitted

SpecHook == HookInit /\ [][HookNext]_vars

\* every awaited operation settles: the registry is delivered, a running
\* tool returns or throws, and the continuation after run() is run
HookFairness ==
    /\ WF_vars(\E b \in 1..Len(batch) : TygentStart(b))
    /\ WF_vars(\E b \in 1..Len(batch) : HookToolSucceeds(b) \/ HookToolFails(b))
    /\ WF_vars(\E b \in 1..Len(batch) : TygentFinish(b))
    /\ WF_vars(\E b \in 1..Len(batch) : TygentRejects(b))

SpecHookLive == HookInit /\ [][HookNext]_vars /\ HookFairness

HookCoreNext ==
    \/ CoreUpdate
    \/ MarkToolsAsSubmitted

SpecHookCore == HookCoreInit /\ [][HookCoreNext]_vars

----------------------------------------------------------------------------
\* Properties of useReactToolScheduler in Tygent mode (SpecHook,
\* SpecHookLive).

\* the calls of onComplete made for batch b
CompletionsOf(b) == {k \in 1..Len(completions) : completions[k].batch = b}

\* batch b has terminated: onComplete was called once, with one completed
\* entry per request in request order
Terminated(b) ==
    /\ Len(batch) >= b
    /\ batch[b].pc = "done"
    /\ Cardinality(CompletionsOf(b)) = 1
    /\ \A k \in CompletionsOf(b) :
          /\ Len(completions[k].tools) = Len(batch[b].requests)
          /\ \A i \in 1..Len(batch[b].requests) :
                /\ completions[k].tools[i].request = batch[b].requests[i]
                /\ completions[k].tools[i].status # "executing"

\* C37 as claimed: every batch passed to schedule() eventually terminates,
\* with onComplete called exactly once with one completed entry per request
\* in request order, also when a requested tool is not in the registry or a
\* tool execution fails.
C37_BatchTerminates ==
    \A b \in 1..MaxBatches : (Len(batch) >= b) ~> Terminated(b)

\* batch b is executing: its calls were put on display and its run has
\* neither resolved into onComplete nor rejected
Executing(b) == batch[b].pc = "running"

\* C38 as claimed: while a batch is executing, every one of its tool calls
\* is in toolCallsForDisplay, whatever other batches start or complete.
C38_OverlappingBatchesDisplayed ==
    \A b \in 1..Len(batch) :
        Executing(b) =>
            \A i \in 1..Len(batch[b].requests) :
                \E k \in 1..Len(toolCallsForDisplay) :
                    toolCallsForDisplay[k].request = batch[b].requests[i]

\* C40: in Tygent mode a tracked call has status executing or success and
\* no other, and aborting the signal of a batch changes nothing but the
\* signal: the display, the batch's progress and the calls of onComplete
\* stay as they are.
C40_OnlyExecutingOrSuccess ==
    /\ [](\A k \in 1..Len(toolCallsForDisplay) :
              toolCallsForDisplay[k].status \in {"executing", "success"})
    /\ [](\A k \in 1..Len(completions) :
              \A i \in 1..Len(completions[k].tools) :
                  completions[k].tools[i].status = "success")
    /\ [][\A b \in 1..Len(batch) :
              batch'[b].aborted # batch[b].aborted =>
                  /\ batch' = [batch EXCEPT ![b].aborted = TRUE]
                  /\ UNCHANGED <<toolCallsForDisplay, completions>>]_vars

\* a batch whose signal was aborted has completed with its calls shown as
\* successes
C40_Witness ==
    \E b \in 1..Len(batch) :
        /\ batch[b].aborted
        /\ batch[b].pc = "done"
        /\ CompletionsOf(b) # {}
        /\ Len(toolCallsForDisplay) = 2
        /\ \A k \in 1..Len(toolCallsForDisplay) :
              toolCallsForDisplay[k].status = "success"

----------------------------------------------------------------------------
\* Properties of the submitted flag (specification SpecHookCore).

\* the call ids markToolsAsSubmitted can be given
MarkChoices == SUBSET {<<"id", "a">>, <<"id", "b">>, <<"id", "c">>}

\* some tracked call with this call id is marked
IsMarked(calls, callId) ==
    \E k \in 1..Len(calls) :
        /\ calls[k].request.callId = callId
        /\ calls[k].responseSubmittedToGemini = "true"

\* C39: markToolsAsSubmitted sets the flag of exactly the tracked calls
\* whose call id is listed, keeps every other call, the other fields and
\* the order, and doing it twice is doing it once; an update of the core
\* scheduler keeps the flag of a call id that is marked and gives a call
\* id it has not seen the flag false.
C39_MarkSubmittedFrame ==
    /\ \A ids \in MarkChoices :
          LET marked == MarkSubmitted(toolCallsForDisplay, ids)
          IN  /\ Len(marked) = Len(toolCallsForDisplay)
              /\ \A i \in 1..Len(marked) :
                    /\ marked[i].request = toolCallsForDisplay[i].request
                    /\ marked[i].status = toolCallsForDisplay[i].status
                    /\ marked[i].responseSubmittedToGemini =
                           IF toolCallsForDisplay[i].request.callId \in ids
                              THEN "true"
                              ELSE toolCallsForDisplay[i].responseSubmittedToGemini
              /\ MarkSubmitted(marked, ids) = marked
    /\ \A updated \in CoreUpdates :
          LET tracked == UpdateTracked(toolCallsForDisplay, updated)
          IN  /\ Len(tracked) = Len(updated)
              /\ \A i \in 1..Len(tracked) :
                    /\ tracked[i].request = updated[i].request
                    /\ tracked[i].status = updated[i].status
                    /\ tracked[i].responseSubmittedToGemini =
                           IF IsMarked(toolCallsForDisplay,
                                       updated[i].request.callId)
                              THEN "true"
                              ELSE "false"

\* after marks and updates the display holds a finished call that is
\* marked, behind a call that is not
C39_Witness ==
    /\ Len(toolCallsForDisplay) = 2
    /\ toolCallsForDisplay[1].responseSubmittedToGemini = "false"
    /\ toolCallsForDisplay[2].responseSubmittedToGemini = "true"
    /\ toolCallsForDisplay[2].status = "success"

====
